---- MODULE Spec2Model ----
(***************************************************************************)
(* AdvancedChatAppGenerateTaskPipeline                                     *)
(* (api/core/app/apps/advanced_chat/generate_task_pipeline.py).            *)
(*                                                                         *)
(* One generation task: the workflow engine publishes events on the        *)
(* queue, the pipeline consumes them with listen() in streaming            *)
(* (_process_stream_response) or blocking (_process_blocking_response)     *)
(* mode, keeps TaskState, emits frames, and persists the Message at the    *)
(* terminal event.  The queue manager, the storage layer, the event        *)
(* entities, the exception classes and OutputModeration are collaborators  *)
(* declared outside the file; they are modelled at their boundary.         *)
(*                                                                         *)
(* Texts are sequences of tokens, dicts are functions on their keys.       *)
(***************************************************************************)
EXTENDS Integers, Sequences, FiniteSets, TLC

\* ---------------------------------------------------------------- bounds
\* Number of events the producing engine publishes in one task.
MaxEvents == 3
\* Largest token count of the prompt messages handed to PromptTransform.
MaxPromptTokens == 10

\* ------------------------------------------------------------- constants
EmptyDict == [k \in {} |-> 0]
NoText == <<>>
\* event.chunk_text of a chunk without text (None)
NoneText == <<"<None>">>
\* OutputModeration preset response (get_final_output once flagged)
Preset == <<"R">>
\* tokens the moderation rule of the app flags
Sensitive == {"b"}

\* InvokeFrom members; the first two are the privileged channels
InvokeFrom == {"debugger", "service-api", "web-app"}

\* ------------------------------------------------------- event entities
\* A queue event: its class and its single payload (an id, a text, an
\* error class), always a sequence of strings.  The error a QueueErrorEvent
\* carries is read when the event is delivered.
Ev(kind, arg) == [kind |-> kind, arg |-> arg]

ErrorClasses ==
    {"InvokeAuthorizationError", "InvokeServerUnavailableError", "ValueError",
     "ProviderTokenNotInitError", "QuotaExceededError",
     "ModelCurrentlyNotSupportError", "RuntimeError", "KeyError"}

\* Events the producing engine can publish
ProducerEvents ==
    {Ev("WorkflowStarted", <<"r1">>), Ev("NodeStarted", <<"n1">>),
     Ev("NodeFinished", <<"n1">>), Ev("WorkflowFinished", <<"r1">>),
     Ev("Stop", <<"user-manual">>),
     Ev("TextChunk", <<"a">>), Ev("TextChunk", <<"b">>), Ev("TextChunk", NoneText),
     Ev("MessageReplace", <<"m">>),
     Ev("MessageFile", <<"f1">>), Ev("MessageFile", <<"f0">>),
     Ev("RetrieverResources", <<"res">>),
     Ev("AnnotationReply", <<"an1">>), Ev("AnnotationReply", <<"an0">>),
     Ev("Ping", <<>>), Ev("AgentThought", <<>>), Ev("Error", <<>>)}

IsTerminal(e) == e.kind \in {"Stop", "WorkflowFinished"}

\* a run and a node execution start once and finish once
OncePerTask == {"WorkflowStarted", "NodeStarted", "NodeFinished", "WorkflowFinished"}

\* ------------------------------------------------------ storage records
\* WorkflowRun rows the engine can commit for run r1
RunRunning == [status |-> "running", outputs |-> EmptyDict, error |-> "None"]
RunRecords ==
    {[status |-> "succeeded", outputs |-> [k \in {"text"} |-> <<"a", "b">>], error |-> "None"],
     [status |-> "succeeded", outputs |-> EmptyDict, error |-> "None"],
     [status |-> "failed", outputs |-> EmptyDict, error |-> "boom"]}

\* LLMUsage dict carried by outputs['usage'] of an LLM node
Usage1 == [prompt_tokens |-> 10, completion_tokens |-> 5, total_price |-> 3]

\* WorkflowNodeExecution rows the engine can commit for execution n1
NodeRunning == [status |-> "running", node_type |-> "llm", outputs |-> EmptyDict]
NodeRecords ==
    {[status |-> "succeeded", node_type |-> "llm", outputs |-> [k \in {"usage"} |-> Usage1]],
     [status |-> "succeeded", node_type |-> "llm", outputs |-> EmptyDict],
     [status |-> "failed", node_type |-> "llm", outputs |-> EmptyDict],
     [status |-> "succeeded", node_type |-> "code", outputs |-> EmptyDict]}

\* the row of a second LLM node n2 of the same run, finished with its own usage
Usage2 == [prompt_tokens |-> 7, completion_tokens |-> 2, total_price |-> 1]
Node2Record == [status |-> "succeeded", node_type |-> "llm", outputs |-> [k \in {"usage"} |-> Usage2]]

\* MessageFile rows and their stored url, one character per element: f1 has
\* a short extension, f2 no dot, f3 an extension of more than ten
\* characters with its dot; any other id is absent
MessageFileUrls ==
    [f1 |-> <<"t", ".", "p", "n", "g">>,
     f2 |-> <<"t", "o", "o", "l">>,
     f3 |-> <<"t", ".", "a", "b", "c", "d", "e", "f", "g", "h", "i", "j">>]

HasMessageFile(id) == id \in DOMAIN MessageFileUrls

DotBin == <<".", "b", "i", "n">>

\* '.' + url.split('.')[-1], '.bin' when longer than 10 or when no dot
Extension(url) ==
    LET dots == {i \in 1..Len(url) : url[i] = "."}
    IN  IF dots = {} THEN DotBin
        ELSE LET extension == SubSeq(url, CHOOSE i \in dots : \A j \in dots : j <= i, Len(url))
             IN  IF Len(extension) > 10 THEN DotBin ELSE extension

\* ToolFileManager.sign_file(file_id, extension)
sign_file(id, extension) == <<"signed", id>> \o extension

\* MessageAnnotation rows: an1 exists, any other id is absent
HasAnnotation(id) == id = "an1"
Annotation1 == [id |-> "an1", account_id |-> "acc1", content |-> <<"n">>]

\* One retrieved segment as the retrieval side publishes it
Resource1 ==
    [segment_id |-> "s1", position |-> 1, document_name |-> "doc", score |-> 9,
     content |-> "c", dataset_id |-> "ds1", document_id |-> "d1"]
RetrieverResources1 == <<Resource1>>

\* ------------------------------------------------------------ exceptions
Absent == "<absent>"

\* isinstance(): the classes an exception class derives from
Bases(cls) ==
    CASE cls = "InvokeAuthorizationError" -> {"InvokeAuthorizationError", "InvokeError", "Exception"}
      [] cls = "InvokeServerUnavailableError" -> {"InvokeServerUnavailableError", "InvokeError", "Exception"}
      [] OTHER -> {cls, "Exception"}

IsInstance(e, k) == k \in Bases(e.class)

\* An exception object: its class, its description attribute (Absent when
\* the class has none) and str(e)
Exc(cls, description, str) == [class |-> cls, description |-> description, str |-> str]

\* The error carried by a QueueErrorEvent of the given class
CauseOf(cls) ==
    IF cls \in {"ValueError", "RuntimeError", "KeyError"}
    THEN Exc(cls, Absent, "cause:" \o cls)
    ELSE Exc(cls, "cause:" \o cls, "cause:" \o cls)

\* an error that does not say why the run failed
RunFailedWithoutReason(run) == Exc("ValueError", Absent, "Run failed")

\* ValueError(f'Run failed: {workflow_run.error}')
RunFailedError(run) == Exc("ValueError", Absent, "Run failed: " \o run.error)

\* the cause handed on as it came
ReturnCause(e) == e

_handle_error(e) ==
    IF IsInstance(e, "InvokeAuthorizationError")
    THEN Exc("InvokeAuthorizationError", "Incorrect API key provided", "Incorrect API key provided")
    ELSE IF IsInstance(e, "InvokeError") \/ IsInstance(e, "ValueError")
    THEN e
    ELSE Exc("Exception", Absent, IF e.description # Absent THEN e.description ELSE e.str)

QuotaMessage == "Your quota for Dify Hosted Model Provider has been exhausted. Please go to Settings -> Model Provider to complete your own provider credentials."

\* error_responses, in insertion order
error_responses ==
    << [class |-> "ValueError", code |-> "invalid_param", message |-> Absent, status |-> 400],
       [class |-> "ProviderTokenNotInitError", code |-> "provider_not_initialize", message |-> Absent, status |-> 400],
       [class |-> "QuotaExceededError", code |-> "provider_quota_exceeded", message |-> QuotaMessage, status |-> 400],
       [class |-> "ModelCurrentlyNotSupportError", code |-> "model_currently_not_support", message |-> Absent, status |-> 400],
       [class |-> "InvokeError", code |-> "completion_request_error", message |-> Absent, status |-> 400] >>

\* A frame of the stream (or the blocking response object)
Frame(event) ==
    [event |-> event, answer |-> NoText, code |-> "", status |-> 0, message |-> "",
     has_metadata |-> FALSE, metadata |-> EmptyDict, url |-> <<>>]

\* getattr(e, 'description', str(e))
DescriptionOrStr(e) == IF e.description # Absent THEN e.description ELSE e.str

\* a fallback that hands the text of the exception to the caller
LeakingErrorData(e) ==
    [Frame("error") EXCEPT !.code = "internal_server_error", !.status = 500, !.message = e.str]

_error_to_stream_response_data(e) ==
    LET matches == {i \in 1..Len(error_responses) : IsInstance(e, error_responses[i].class)}
    IN  IF matches # {}
        THEN LET data == error_responses[CHOOSE i \in matches : \A j \in matches : j <= i]
             IN  [Frame("error") EXCEPT
                    !.code = data.code, !.status = data.status,
                    !.message = IF data.message # Absent THEN data.message ELSE DescriptionOrStr(e)]
        ELSE [Frame("error") EXCEPT
                !.code = "internal_server_error", !.status = 500,
                !.message = "Internal Server Error, please contact support."]

\* ------------------------------------------------------ response metadata
Privileged(from) == from \in {"debugger", "service-api"}

PublicFields == {"segment_id", "position", "document_name", "score", "content"}

Project(resources) ==
    [i \in 1..Len(resources) |-> [f \in PublicFields |-> resources[i][f]]]

\* metadata['usage'] of a privileged caller raises KeyError when no usage was collected
ResponseMetadataRaises(md, from) == Privileged(from) /\ "usage" \notin DOMAIN md

\* the collected metadata handed out as it is
UngatedMetadata(md, from) == md

_get_response_metadata(md, from) ==
    LET shown == {k \in DOMAIN md : k = "retriever_resources" \/ (k = "annotation_reply" /\ Privileged(from))}
                 \cup (IF Privileged(from) THEN {"usage"} ELSE {})
    IN  [k \in shown |->
            IF k = "retriever_resources" /\ ~Privileged(from)
            THEN Project(md[k])
            ELSE md[k]]

\* metadata[key] = value
SetItem(md, key, value) == [k \in DOMAIN md \cup {key} |-> IF k = key THEN value ELSE md[k]]

\* outputs.get(key, default)
Get(d, key, default) == IF key \in DOMAIN d THEN d[key] ELSE default

\* an instance of the session: held or not, expired or loaded, and the
\* attributes it has loaded
Unloaded == [status |-> "<unloaded>"]
NotInSession == [present |-> FALSE, expired |-> FALSE, row |-> Unloaded]
NewSession == [run |-> NotInSession, node |-> NotInSession]

VARIABLES
    stream,           \* process(stream): TRUE streaming, FALSE blocking
    invoke_from,      \* application_generate_entity.invoke_from
    drain,            \* queue manager: listen() delivers all that is queued
    queue,            \* events published and not yet delivered
    published,        \* events published by the engine so far
    dbRun, dbNode,    \* rows committed by the engine
    session,          \* db.session of the pipeline: the instances it holds
    pc,               \* "listening", "done", "raised", "crashed"
    consumed,         \* classes of the events listen() has delivered
    answer, metadata, workflow_run_id,   \* TaskState
    handler,          \* self._output_moderation_handler is not None
    mod,              \* OutputModeration object
    message,          \* the Message row and its notifications
    frames,           \* frames yielded by the streaming generator
    response,         \* value returned by the blocking call
    raised,           \* exception raised out of process()
    log,              \* calls on the handler, the session and the signal, and
                      \* the frames of the terminal branch, in program order
    prior,            \* outcome of an earlier streaming run over the same events
    validate_args,    \* DatasetValidator.validate_and_set_defaults: app_mode, config
    validated,        \* what the call returned or raised, <<>> before the call
    token_args,       \* PromptTransform._calculate_rest_token: the model and the prompt
    rest_tokens       \* what the call returned, <<>> before the call

vars == <<stream, invoke_from, drain, queue, published, dbRun, dbNode, session, pc, consumed,
          answer, metadata, workflow_run_id, handler, mod, message, frames,
          response, raised, log, prior, validate_args, validated, token_args, rest_tokens>>

\* the calls outside the pipeline
callVars == <<validate_args, validated, token_args, rest_tokens>>

\* no such call is under way
NoArgs == [given |-> FALSE]
NoCalls ==
    /\ validate_args = NoArgs /\ validated = <<>>
    /\ token_args = NoArgs /\ rest_tokens = <<>>

\* ------------------------------------------------------------ moderation
\* _init_output_moderation: the handler object right after construction
NewModeration == [running |-> TRUE, buffer |-> NoText, final_output |-> NoText, completions |-> 0]

\* the moderation rule flags a text that holds a sensitive token
Flagged(text) == \E i \in 1..Len(text) : text[i] \in Sensitive

should_direct_output(m) == m.final_output # NoText

get_final_output(m) == m.final_output

\* append_new_token(token): buffered for the background scan
append_new_token(m, token) == [m EXCEPT !.buffer = @ \o token]

\* moderation_completion(completion): the completion, or the preset
\* response when the finalize scan flags it
moderation_completion(completion) == IF Flagged(completion) THEN Preset ELSE completion

\* stop_thread(), then moderation_completion() on the handler
StopAndComplete(m) == [m EXCEPT !.running = FALSE, !.completions = @ + 1]

\* --------------------------------------------------------------- message
NewMessage == [answer |-> NoText, workflow_run_id |-> "None", message_tokens |-> 0,
               answer_tokens |-> 0, total_price |-> 0, commits |-> 0, notified |-> 0]

\* a save that commits the row without writing the answer
SaveWithoutAnswer(msg, ans, md, run_id) ==
    [msg EXCEPT !.workflow_run_id = run_id, !.commits = @ + 1, !.notified = @ + 1]

\* _save_message: reload, set the fields, commit, send message_was_created
_save_message(msg, ans, md, run_id) ==
    LET hasUsage == "usage" \in DOMAIN md /\ DOMAIN md["usage"] # {}
    IN  [answer |-> ans,
         workflow_run_id |-> run_id,
         message_tokens |-> IF hasUsage THEN md["usage"].prompt_tokens ELSE msg.message_tokens,
         answer_tokens |-> IF hasUsage THEN md["usage"].completion_tokens ELSE msg.answer_tokens,
         total_price |-> IF hasUsage THEN md["usage"].total_price ELSE msg.total_price,
         commits |-> msg.commits + 1,
         notified |-> msg.notified + 1]

\* ----------------------------------------------------------------- queue
TerminalDelivered == \E i \in 1..Len(consumed) : IsTerminal(consumed[i])

\* listen() yields the next queued event
ListenYields ==
    /\ pc = "listening"
    /\ queue # <<>>
    /\ drain \/ ~TerminalDelivered

\* the delivered event leaves the queue
Deliver ==
    /\ queue' = Tail(queue)
    /\ consumed' = Append(consumed, Head(queue))

\* a terminal event was published (by the engine or by the pipeline)
TerminalPublished ==
    TerminalDelivered \/ \E i \in 1..Len(queue) : IsTerminal(queue[i])

\* engine side: commit the row the event refers to, then publish the event;
\* the engine's terminal event is the last event of its task, unless the
\* queue is taken to hold anything
Produce ==
    /\ pc = "listening"
    /\ prior = <<>>
    /\ Len(published) < MaxEvents
    /\ drain \/ ~TerminalPublished
    /\ \E e \in ProducerEvents :
        /\ e.kind \in OncePerTask => \A i \in 1..Len(published) : published[i].kind # e.kind
        /\ queue' = Append(queue, e)
        /\ published' = Append(published, e)
        /\ dbRun' \in (CASE e.kind = "WorkflowStarted" -> {RunRunning}
                         [] e.kind = "WorkflowFinished" -> RunRecords
                         [] OTHER -> {dbRun})
        /\ dbNode' \in (CASE e.kind = "NodeStarted" -> {NodeRunning}
                          [] e.kind = "NodeFinished" -> NodeRecords
                          [] OTHER -> {dbNode})
    /\ UNCHANGED <<stream, invoke_from, drain, session, pc, consumed, answer, metadata,
                   workflow_run_id, handler, mod, message, frames, response, raised,
                   log, prior, callVars>>

\* listen() ends: the loop of the pipeline is left
ListenEnd ==
    /\ pc = "listening"
    /\ TerminalDelivered
    /\ drain => queue = <<>>
    /\ pc' = "done"
    /\ UNCHANGED <<stream, invoke_from, drain, queue, published, dbRun, dbNode, session, consumed,
                   answer, metadata, workflow_run_id, handler, mod, message, frames,
                   response, raised, log, prior, callVars>>

\* background scan of OutputModeration decides that the output is replaced
ModerationFlag ==
    /\ pc = "listening"
    /\ handler /\ mod.running
    /\ Flagged(mod.buffer)
    /\ mod.final_output = NoText
    /\ mod' = [mod EXCEPT !.final_output = Preset]
    /\ UNCHANGED <<stream, invoke_from, drain, queue, published, dbRun, dbNode, session, pc, consumed,
                   answer, metadata, workflow_run_id, handler, message, frames,
                   response, raised, log, prior, callVars>>

Init ==
    /\ stream \in BOOLEAN
    /\ invoke_from \in InvokeFrom
    /\ drain = FALSE
    /\ queue = <<>>
    /\ published = <<>>
    /\ dbRun = RunRunning
    /\ dbNode = NodeRunning
    /\ session = NewSession
    /\ pc = "listening"
    /\ consumed = <<>>
    /\ answer = NoText
    /\ metadata = EmptyDict
    /\ workflow_run_id = "None"
    /\ handler \in BOOLEAN
    /\ mod = NewModeration
    /\ message = NewMessage
    /\ frames = <<>>
    /\ response = <<>>
    /\ raised = <<>>
    /\ log = <<>>
    /\ prior = <<>>
    /\ NoCalls

\* what no handler of the pipeline changes
envVars == <<stream, invoke_from, drain, published, dbRun, dbNode, prior, callVars>>

\* query(...).first(): the row is fetched; an instance the session holds
\* already keeps the attributes it has loaded, an expired or new one takes
\* the committed row
QueryFirst(entity, committed) ==
    IF entity.present /\ ~entity.expired
    THEN entity
    ELSE [present |-> TRUE, expired |-> FALSE, row |-> committed]

\* a read that leaves the instance as the query returned it
KeepLoaded(entity) == entity

\* db.session.expire(instance): the loaded attributes are dropped
Expire(entity) == [entity EXCEPT !.expired = TRUE, !.row = Unloaded]

\* attribute access by the handler: an expired instance is loaded again
\* from the committed row
Refresh(entity, committed) ==
    IF entity.expired THEN [present |-> TRUE, expired |-> FALSE, row |-> committed] ELSE entity

\* the instance in the session once the handler has used the record
SessionAfterRead(entity, committed) == Refresh(Expire(QueryFirst(entity, committed)), committed)

\* _get_workflow_run: query, expire; the handler reads the attributes
_get_workflow_run(id) == SessionAfterRead(session.run, dbRun).row

\* _get_workflow_node_execution: query, expire; the handler reads the attributes
_get_workflow_node_execution(id) ==
    IF id = "n2" THEN Node2Record ELSE SessionAfterRead(session.node, dbNode).row

\* the session after a handler has read the run, the node execution
RunRead == [session EXCEPT !.run = SessionAfterRead(session.run, dbRun)]
NodeRead(id) ==
    IF id = "n2" THEN session
    ELSE [session EXCEPT !.node = SessionAfterRead(session.node, dbNode)]

\* metadata after a NodeFinished event
\* a NodeFinished branch that collects no usage
NoUsageCollected(md, node) == md

NodeFinishedMetadata(md, node) ==
    IF node.status = "succeeded" /\ node.node_type = "llm"
    THEN SetItem(md, "usage", Get(node.outputs, "usage", EmptyDict))
    ELSE md

\* metadata after an AnnotationReply event whose annotation exists
AnnotationMetadata(md, annotation) ==
    SetItem(md, "annotation_reply",
            [id |-> annotation.id,
             account |-> [id |-> annotation.account_id, name |-> "Dify user"]])

\* ============================================ _process_stream_response
\* where the loop stands after the error frame: `break`
ContinueAfterError == "listening"
AfterErrorFrame == "done"

Stream_Error ==
    /\ stream /\ ListenYields
    /\ Head(queue).kind = "Error"
    /\ queue' = Tail(queue)
    /\ \E cls \in ErrorClasses :
        /\ consumed' = Append(consumed, Ev("Error", <<cls>>))
        /\ frames' = Append(frames, _error_to_stream_response_data(_handle_error(CauseOf(cls))))
    /\ pc' = AfterErrorFrame
    /\ UNCHANGED <<envVars, session, log, answer, metadata, workflow_run_id, handler, mod, message,
                   response, raised>>

Stream_WorkflowStarted ==
    /\ stream /\ ListenYields
    /\ Head(queue).kind = "WorkflowStarted"
    /\ Deliver
    /\ session' = RunRead
    /\ workflow_run_id' = Head(queue).arg[1]
    /\ frames' = Append(frames, Frame("workflow_started"))
    /\ UNCHANGED <<envVars, log, pc, answer, metadata, handler, mod, message, response, raised>>

Stream_NodeStarted ==
    /\ stream /\ ListenYields
    /\ Head(queue).kind = "NodeStarted"
    /\ Deliver
    /\ session' = NodeRead(Head(queue).arg[1])
    /\ frames' = Append(frames, Frame("node_started"))
    /\ UNCHANGED <<envVars, log, pc, answer, metadata, workflow_run_id, handler, mod, message,
                   response, raised>>

Stream_NodeFinished ==
    /\ stream /\ ListenYields
    /\ Head(queue).kind = "NodeFinished"
    /\ Deliver
    /\ session' = NodeRead(Head(queue).arg[1])
    /\ metadata' = NodeFinishedMetadata(metadata, _get_workflow_node_execution(Head(queue).arg[1]))
    /\ frames' = Append(frames, Frame("node_finished"))
    /\ UNCHANGED <<envVars, log, pc, answer, workflow_run_id, handler, mod, message, response, raised>>

\* a terminal branch that keeps its handler
HandlerKept(h) == h

\* self._output_moderation_handler = None
HandlerAfterFinalization(h) == FALSE

\* stop_thread() and moderation_completion() of the terminal branch
ModerationSteps(h) == IF h THEN <<"stop_thread", "moderation_completion">> ELSE <<>>

\* _save_message: db.session.commit(), then message_was_created.send()
SaveSteps == <<"commit", "message_was_created">>

\* a terminal branch that saves the message before it asks the handler
StreamSaveFirst(isWF, h, ends) ==
    SaveSteps
        \o (IF isWF THEN <<"yield:workflow_finished">> ELSE <<>>)
        \o ModerationSteps(h)
        \o (IF h THEN <<"yield:message_replace">> ELSE <<>>)
        \o (IF ends THEN <<"yield:message_end">> ELSE <<>>)

\* what the terminal branch of the stream does, in program order; ends is
\* FALSE when _get_response_metadata raises
StreamFinalization(isWF, h, ends) ==
    (IF isWF THEN <<"yield:workflow_finished">> ELSE <<>>)
        \o ModerationSteps(h)
        \o (IF h THEN <<"yield:message_replace">> ELSE <<>>)
        \o SaveSteps
        \o (IF ends THEN <<"yield:message_end">> ELSE <<>>)

\* what the terminal branch of the blocking loop does, in program order
BlockingFinalization(h, ends) ==
    ModerationSteps(h) \o SaveSteps \o (IF ends THEN <<"return">> ELSE <<>>)

\* Stop or WorkflowFinished: a failed run takes the error path and breaks;
\* otherwise workflow_finished, moderation, message_replace, _save_message,
\* message_end, and the loop asks listen() for the next event
Stream_Terminal ==
    /\ stream /\ ListenYields
    /\ IsTerminal(Head(queue))
    /\ Deliver
    /\ session' = IF Head(queue).kind = "WorkflowFinished" THEN RunRead ELSE session
    /\ LET isWF == Head(queue).kind = "WorkflowFinished"
           run == _get_workflow_run(Head(queue).arg[1])
       IN  IF isWF /\ run.status # "succeeded"
           THEN /\ frames' = Append(frames,
                                    _error_to_stream_response_data(_handle_error(RunFailedError(run))))
                /\ pc' = "done"
                /\ log' = Append(log, "yield:error")
                /\ UNCHANGED <<answer, metadata, workflow_run_id, handler, mod, message>>
           ELSE LET text == IF isWF THEN Get(run.outputs, "text", NoText) ELSE answer
                    final == IF handler THEN moderation_completion(text) ELSE text
                    raises == DOMAIN metadata # {} /\ ResponseMetadataRaises(metadata, invoke_from)
                IN    LET f1 == IF isWF THEN Append(frames, Frame("workflow_finished")) ELSE frames
                          f2 == IF handler
                                THEN Append(f1, [Frame("message_replace") EXCEPT !.answer = final])
                                ELSE f1
                      IN  /\ answer' = final
                          /\ mod' = IF handler THEN StopAndComplete(mod) ELSE mod
                          /\ handler' = HandlerAfterFinalization(handler)
                          /\ message' = _save_message(message, final, metadata, workflow_run_id)
                          /\ log' = log \o StreamFinalization(isWF, handler, ~raises)
                          /\ IF raises
                             THEN /\ frames' = f2
                                  /\ pc' = "crashed"
                             ELSE /\ frames' = Append(f2,
                                        IF DOMAIN metadata # {}
                                        THEN [Frame("message_end") EXCEPT
                                                !.has_metadata = TRUE,
                                                !.metadata = _get_response_metadata(metadata, invoke_from)]
                                        ELSE Frame("message_end"))
                                  /\ pc' = "listening"
                          /\ UNCHANGED <<metadata, workflow_run_id>>
    /\ UNCHANGED <<envVars, response, raised>>

Stream_RetrieverResources ==
    /\ stream /\ ListenYields
    /\ Head(queue).kind = "RetrieverResources"
    /\ Deliver
    /\ metadata' = SetItem(metadata, "retriever_resources", RetrieverResources1)
    /\ UNCHANGED <<envVars, session, log, pc, answer, workflow_run_id, handler, mod, message, frames,
                   response, raised>>

Stream_AnnotationReply ==
    /\ stream /\ ListenYields
    /\ Head(queue).kind = "AnnotationReply"
    /\ Deliver
    /\ IF HasAnnotation(Head(queue).arg[1])
       THEN /\ metadata' = AnnotationMetadata(metadata, Annotation1)
            /\ answer' = Annotation1.content
       ELSE UNCHANGED <<metadata, answer>>
    /\ UNCHANGED <<envVars, session, log, pc, workflow_run_id, handler, mod, message, frames, response, raised>>

\* message_file.url is read before the `if message_file` test: an absent
\* row raises AttributeError out of the generator
Stream_MessageFile ==
    /\ stream /\ ListenYields
    /\ Head(queue).kind = "MessageFile"
    /\ Deliver
    /\ IF HasMessageFile(Head(queue).arg[1])
       THEN /\ frames' = Append(frames,
                [Frame("message_file") EXCEPT
                    !.url = sign_file(Head(queue).arg[1],
                                      Extension(MessageFileUrls[Head(queue).arg[1]]))])
            /\ pc' = pc
       ELSE /\ frames' = frames
            /\ pc' = "crashed"
    /\ UNCHANGED <<envVars, session, log, answer, metadata, workflow_run_id, handler, mod, message,
                   response, raised>>

\* the direct-output branch drops the answer collected so far
ClearedAnswer(ans, m) == NoText

\* self._task_state.answer = self._output_moderation_handler.get_final_output()
DirectOutputAnswer(ans, m) == get_final_output(m)

\* The handler reads event.chunk_text, the direct-output branch builds its
\* event with the keyword text=: the entity class decides whether that
\* constructor call returns an event or raises out of the generator.
TextKeywordOutcomes == {"accepted", "rejected"}

Stream_TextChunk ==
    /\ stream /\ ListenYields
    /\ Head(queue).kind = "TextChunk"
    /\ consumed' = Append(consumed, Head(queue))
    /\ LET delta_text == Head(queue).arg
       IN  IF delta_text = NoneText
           THEN /\ queue' = Tail(queue)
                /\ UNCHANGED <<answer, mod, frames, pc, log>>
           ELSE IF handler /\ should_direct_output(mod)
           THEN /\ answer' = DirectOutputAnswer(answer, mod)
                /\ log' = Append(log, "should_direct_output")
                /\ \E outcome \in TextKeywordOutcomes :
                      IF outcome = "accepted"
                      THEN /\ queue' = Tail(queue) \o <<Ev("TextChunk", answer'),
                                                        Ev("Stop", <<"output-moderation">>)>>
                           /\ pc' = pc
                      ELSE /\ queue' = Tail(queue)
                           /\ pc' = "crashed"
                /\ UNCHANGED <<mod, frames>>
           ELSE /\ queue' = Tail(queue)
                /\ mod' = IF handler THEN append_new_token(mod, delta_text) ELSE mod
                /\ answer' = answer \o delta_text
                /\ frames' = Append(frames, [Frame("message") EXCEPT !.answer = delta_text])
                /\ pc' = pc
                /\ log' = log \o (IF handler
                                   THEN <<"should_direct_output", "append_new_token">>
                                   ELSE <<>>)
    /\ UNCHANGED <<envVars, session, metadata, workflow_run_id, handler, message, response, raised>>

Stream_MessageReplace ==
    /\ stream /\ ListenYields
    /\ Head(queue).kind = "MessageReplace"
    /\ Deliver
    /\ frames' = Append(frames, [Frame("message_replace") EXCEPT !.answer = Head(queue).arg])
    /\ UNCHANGED <<envVars, session, log, pc, answer, metadata, workflow_run_id, handler, mod, message,
                   response, raised>>

\* a ping frame sent on a timer, not for a Ping event
PingWithoutEvent ==
    /\ stream /\ pc = "listening"
    /\ frames = <<>>
    /\ frames' = <<Frame("ping")>>
    /\ UNCHANGED <<envVars, session, log, pc, queue, consumed, answer, metadata, workflow_run_id,
                   handler, mod, message, response, raised>>

Stream_Ping ==
    /\ stream /\ ListenYields
    /\ Head(queue).kind = "Ping"
    /\ Deliver
    /\ frames' = Append(frames, Frame("ping"))
    /\ UNCHANGED <<envVars, session, log, pc, answer, metadata, workflow_run_id, handler, mod, message,
                   response, raised>>

StreamKinds ==
    {"Error", "WorkflowStarted", "NodeStarted", "NodeFinished", "Stop", "WorkflowFinished",
     "RetrieverResources", "AnnotationReply", "MessageFile", "TextChunk", "MessageReplace",
     "Ping"}

\* a dispatcher that answers an event it does not know with a ping frame
UnknownAsPing ==
    /\ stream /\ ListenYields
    /\ Head(queue).kind \notin StreamKinds
    /\ Deliver
    /\ frames' = Append(frames, Frame("ping"))
    /\ UNCHANGED <<envVars, session, log, pc, answer, metadata, workflow_run_id, handler, mod, message,
                   response, raised>>

\* else: continue
Stream_Other ==
    /\ stream /\ ListenYields
    /\ Head(queue).kind \notin StreamKinds
    /\ Deliver
    /\ UNCHANGED <<envVars, session, log, pc, answer, metadata, workflow_run_id, handler, mod, message,
                   frames, response, raised>>

\* ========================================== _process_blocking_response
Blocking_Error ==
    /\ ~stream /\ ListenYields
    /\ Head(queue).kind = "Error"
    /\ queue' = Tail(queue)
    /\ \E cls \in ErrorClasses :
        /\ consumed' = Append(consumed, Ev("Error", <<cls>>))
        /\ raised' = <<_handle_error(CauseOf(cls))>>
    /\ pc' = "raised"
    /\ UNCHANGED <<envVars, session, log, answer, metadata, workflow_run_id, handler, mod, message,
                   frames, response>>

Blocking_RetrieverResources ==
    /\ ~stream /\ ListenYields
    /\ Head(queue).kind = "RetrieverResources"
    /\ Deliver
    /\ metadata' = SetItem(metadata, "retriever_resources", RetrieverResources1)
    /\ UNCHANGED <<envVars, session, log, pc, answer, workflow_run_id, handler, mod, message, frames,
                   response, raised>>

Blocking_AnnotationReply ==
    /\ ~stream /\ ListenYields
    /\ Head(queue).kind = "AnnotationReply"
    /\ Deliver
    /\ IF HasAnnotation(Head(queue).arg[1])
       THEN /\ metadata' = AnnotationMetadata(metadata, Annotation1)
            /\ answer' = Annotation1.content
       ELSE UNCHANGED <<metadata, answer>>
    /\ UNCHANGED <<envVars, session, log, pc, workflow_run_id, handler, mod, message, frames, response, raised>>

Blocking_WorkflowStarted ==
    /\ ~stream /\ ListenYields
    /\ Head(queue).kind = "WorkflowStarted"
    /\ Deliver
    /\ workflow_run_id' = Head(queue).arg[1]
    /\ UNCHANGED <<envVars, session, log, pc, answer, metadata, handler, mod, message, frames, response, raised>>

Blocking_NodeFinished ==
    /\ ~stream /\ ListenYields
    /\ Head(queue).kind = "NodeFinished"
    /\ Deliver
    /\ session' = NodeRead(Head(queue).arg[1])
    /\ metadata' = NodeFinishedMetadata(metadata, _get_workflow_node_execution(Head(queue).arg[1]))
    /\ UNCHANGED <<envVars, log, pc, answer, workflow_run_id, handler, mod, message, frames,
                   response, raised>>

\* The blocking branch reads workflow_run.outputs where the stream reads
\* workflow_run.outputs_dict: the row class decides whether the attribute
\* is the parsed dict or the stored text, which has no get().
OutputsAttribute == {"dict", "text"}

\* Stop or WorkflowFinished: a failed run raises; otherwise moderation,
\* _save_message and the response object is returned
Blocking_Terminal ==
    /\ ~stream /\ ListenYields
    /\ IsTerminal(Head(queue))
    /\ Deliver
    /\ session' = IF Head(queue).kind = "WorkflowFinished" THEN RunRead ELSE session
    /\ LET isWF == Head(queue).kind = "WorkflowFinished"
           run == _get_workflow_run(Head(queue).arg[1])
       IN  IF isWF /\ run.status # "succeeded"
           THEN /\ raised' = <<_handle_error(RunFailedError(run))>>
                /\ pc' = "raised"
                /\ log' = Append(log, "raise")
                /\ UNCHANGED <<answer, mod, message, response>>
           ELSE \E outputs \in (IF isWF THEN OutputsAttribute ELSE {"dict"}) :
                IF outputs = "text"
                THEN /\ pc' = "crashed"
                     /\ UNCHANGED <<answer, mod, message, response, raised, log>>
                ELSE
                LET text == IF isWF THEN Get(run.outputs, "text", NoText) ELSE answer
                    final == IF handler THEN moderation_completion(text) ELSE text
                    raises == DOMAIN metadata # {} /\ ResponseMetadataRaises(metadata, invoke_from)
                IN    /\ answer' = final
                      /\ mod' = IF handler THEN StopAndComplete(mod) ELSE mod
                      /\ message' = _save_message(message, final, metadata, workflow_run_id)
                      /\ log' = log \o BlockingFinalization(handler, ~raises)
                      /\ IF raises
                         THEN /\ response' = response
                              /\ pc' = "crashed"
                         ELSE /\ response' =
                                    <<IF DOMAIN metadata # {}
                                      THEN [Frame("message") EXCEPT
                                              !.answer = final,
                                              !.has_metadata = TRUE,
                                              !.metadata = _get_response_metadata(metadata, invoke_from)]
                                      ELSE [Frame("message") EXCEPT !.answer = final]>>
                              /\ pc' = "done"
                      /\ raised' = raised
    /\ UNCHANGED <<envVars, metadata, workflow_run_id, handler, frames>>

BlockingKinds ==
    {"Error", "RetrieverResources", "AnnotationReply", "WorkflowStarted", "NodeFinished",
     "Stop", "WorkflowFinished"}

\* else: continue
Blocking_Other ==
    /\ ~stream /\ ListenYields
    /\ Head(queue).kind \notin BlockingKinds
    /\ Deliver
    /\ UNCHANGED <<envVars, session, log, pc, answer, metadata, workflow_run_id, handler, mod, message,
                   frames, response, raised>>

\* ----------------------------------------------------------------- system
\* the consuming side: the loop over listen(), the scan of the handler
Consume ==
    \/ ModerationFlag
    \/ ListenEnd
    \/ Stream_Error
    \/ Stream_WorkflowStarted
    \/ Stream_NodeStarted
    \/ Stream_NodeFinished
    \/ Stream_Terminal
    \/ Stream_RetrieverResources
    \/ Stream_AnnotationReply
    \/ Stream_MessageFile
    \/ Stream_TextChunk
    \/ Stream_MessageReplace
    \/ Stream_Ping
    \/ Stream_Other
    \/ Blocking_Error
    \/ Blocking_RetrieverResources
    \/ Blocking_AnnotationReply
    \/ Blocking_WorkflowStarted
    \/ Blocking_NodeFinished
    \/ Blocking_Terminal
    \/ Blocking_Other

Next == Produce \/ Consume

\* listen() is terminated by the first terminal event it delivers
Spec == Init /\ [][Next]_vars

\* listen() hands over every event that was published
InitDrain ==
    /\ stream \in BOOLEAN
    /\ invoke_from \in InvokeFrom
    /\ drain = TRUE
    /\ queue = <<>>
    /\ published = <<>>
    /\ dbRun = RunRunning
    /\ dbNode = NodeRunning
    /\ session = NewSession
    /\ pc = "listening"
    /\ consumed = <<>>
    /\ answer = NoText
    /\ metadata = EmptyDict
    /\ workflow_run_id = "None"
    /\ handler \in BOOLEAN
    /\ mod = NewModeration
    /\ message = NewMessage
    /\ frames = <<>>
    /\ response = <<>>
    /\ raised = <<>>
    /\ log = <<>>
    /\ prior = <<>>
    /\ NoCalls

SpecDrain == InitDrain /\ [][Next]_vars

\* the same queue manager for an application with sensitive-word avoidance
\* enabled: _init_output_moderation returns a handler
InitModerated == InitDrain /\ handler

SpecModerated == InitModerated /\ [][Next]_vars

\* ------------------------------------------------- both modes, one input
\* the terminal output of a run: the message_end frame or the response object
TerminalOutput ==
    IF stream
    THEN IF frames # <<>> /\ frames[Len(frames)].event = "message_end"
         THEN <<frames[Len(frames)]>> ELSE <<>>
    ELSE response

\* what a finished run leaves behind
Outcome ==
    [pc |-> pc, answer |-> message.answer, commits |-> message.commits,
     output |-> TerminalOutput]

\* process(stream=False) of a fresh pipeline over the events and rows the
\* streaming run was given
Rerun ==
    /\ stream
    /\ pc # "listening"
    /\ prior = <<>>
    /\ prior' = <<Outcome>>
    /\ stream' = FALSE
    /\ queue' = published
    /\ pc' = "listening"
    /\ consumed' = <<>>
    /\ answer' = NoText
    /\ metadata' = EmptyDict
    /\ workflow_run_id' = "None"
    /\ handler' = (handler \/ mod.completions > 0)
    /\ mod' = NewModeration
    /\ message' = NewMessage
    /\ frames' = <<>>
    /\ response' = <<>>
    /\ raised' = <<>>
    /\ log' = <<>>
    /\ session' = NewSession
    /\ UNCHANGED <<invoke_from, drain, published, dbRun, dbNode, callVars>>

InitPair ==
    /\ stream = TRUE
    /\ invoke_from \in InvokeFrom
    /\ drain = FALSE
    /\ queue = <<>>
    /\ published = <<>>
    /\ dbRun = RunRunning
    /\ dbNode = NodeRunning
    /\ session = NewSession
    /\ pc = "listening"
    /\ consumed = <<>>
    /\ answer = NoText
    /\ metadata = EmptyDict
    /\ workflow_run_id = "None"
    /\ handler \in BOOLEAN
    /\ mod = NewModeration
    /\ message = NewMessage
    /\ frames = <<>>
    /\ response = <<>>
    /\ raised = <<>>
    /\ log = <<>>
    /\ prior = <<>>
    /\ NoCalls

NextPair == Next \/ Rerun

\* a streaming run, then a blocking run over the same events
SpecPair == InitPair /\ [][NextPair]_vars

\* A whole task queued before the pipeline starts: the run of an LLM node
\* that streams two chunks, a task with retrieval, annotation, file,
\* replacement and user stop, a task that ends in an error, a run of two
\* LLM nodes, and a task with the files of a tool
ExampleScript ==
    <<Ev("WorkflowStarted", <<"r1">>), Ev("NodeStarted", <<"n1">>),
      Ev("TextChunk", <<"a">>), Ev("TextChunk", <<"b">>),
      Ev("NodeFinished", <<"n1">>), Ev("WorkflowFinished", <<"r1">>)>>

Scripts ==
    {ExampleScript,
     <<Ev("RetrieverResources", <<"res">>), Ev("AnnotationReply", <<"an1">>),
       Ev("MessageFile", <<"f1">>), Ev("MessageReplace", <<"m">>), Ev("Ping", <<>>),
       Ev("AgentThought", <<>>), Ev("TextChunk", <<"b">>), Ev("TextChunk", <<"a">>),
       Ev("Stop", <<"user-manual">>)>>,
     <<Ev("WorkflowStarted", <<"r1">>), Ev("NodeFinished", <<"n1">>), Ev("Error", <<>>)>>,
     <<Ev("WorkflowStarted", <<"r1">>), Ev("NodeFinished", <<"n1">>),
       Ev("NodeFinished", <<"n2">>), Ev("WorkflowFinished", <<"r1">>)>>,
     <<Ev("MessageFile", <<"f2">>), Ev("MessageFile", <<"f3">>), Ev("MessageFile", <<"f1">>),
       Ev("MessageFile", <<"f0">>), Ev("Stop", <<"user-manual">>)>>}

InitScript ==
    /\ stream \in BOOLEAN
    /\ invoke_from \in InvokeFrom
    /\ drain = FALSE
    /\ queue \in Scripts
    /\ published = queue
    /\ dbRun \in RunRecords
    /\ dbNode \in NodeRecords
    /\ session = NewSession
    /\ pc = "listening"
    /\ consumed = <<>>
    /\ answer = NoText
    /\ metadata = EmptyDict
    /\ workflow_run_id = "None"
    /\ handler \in BOOLEAN
    /\ mod = NewModeration
    /\ message = NewMessage
    /\ frames = <<>>
    /\ response = <<>>
    /\ raised = <<>>
    /\ log = <<>>
    /\ prior = <<>>
    /\ NoCalls

\* the pipeline over a task that is queued as a whole
SpecScript == InitScript /\ [][Consume]_vars

\* ===================================================== DatasetValidator
\* the pipeline at rest while a function outside it is called
PipelineIdle ==
    /\ stream = FALSE /\ invoke_from = "web-app" /\ drain = FALSE
    /\ queue = <<>> /\ published = <<>>
    /\ dbRun = RunRunning /\ dbNode = NodeRunning /\ session = NewSession
    /\ pc = "done" /\ consumed = <<>>
    /\ answer = NoText /\ metadata = EmptyDict /\ workflow_run_id = "None"
    /\ handler = FALSE /\ mod = NewModeration /\ message = NewMessage
    /\ frames = <<>> /\ response = <<>> /\ raised = <<>> /\ log = <<>> /\ prior = <<>>

pipelineVars ==
    <<stream, invoke_from, drain, queue, published, dbRun, dbNode, session, pc, consumed,
      answer, metadata, workflow_run_id, handler, mod, message, frames, response, raised,
      log, prior>>

AppModes == {"completion", "chat"}

\* a tool of agent_mode.tools: its single key, and enabled and id of a
\* dataset tool ("absent" for a missing key)
Tool(key, enabled, id) == [key |-> key, enabled |-> enabled, id |-> id]

\* dataset ids: ds1 is a dataset of the tenant, ds9 is a UUID without a
\* dataset, not-uuid is no UUID
ToolLists ==
    {<<>>, <<Tool("web", "absent", "absent")>>,
     <<Tool("dataset", "true", "ds1")>>, <<Tool("dataset", "absent", "ds1")>>,
     <<Tool("dataset", "true", "ds9")>>, <<Tool("dataset", "true", "not-uuid")>>,
     <<Tool("dataset", "true", "absent")>>,
     <<Tool("web", "absent", "absent"), Tool("dataset", "true", "ds1")>>}

\* config['agent_mode']: given FALSE stands for a missing or empty value
NoAgentMode == [given |-> FALSE, enabled |-> "absent", tools |-> <<>>, strategy |-> "absent"]
AgentModes ==
    {NoAgentMode}
    \cup [given : {TRUE}, enabled : {"absent", "false", "true"}, tools : ToolLists,
          strategy : {"absent", "router", "function_call"}]

\* config['dataset_configs']['datasets']: a dict is true when it has keys
NoDatasets == [given |-> FALSE, strategy |-> "", datasets |-> <<>>]
DefaultDatasets == [given |-> TRUE, strategy |-> "router", datasets |-> <<>>]
ListedDatasets == [given |-> TRUE, strategy |-> "router", datasets |-> <<"ds1">>]

\* config['dataset_configs']
NoDatasetConfigs ==
    [given |-> FALSE, retrieval_model |-> "absent", reranking_model |-> "absent",
     datasets |-> NoDatasets]
DatasetConfigs ==
    {NoDatasetConfigs}
    \cup [given : {TRUE}, retrieval_model : {"absent", "single", "multiple"},
          reranking_model : {"absent", "empty", "set"},
          datasets : {NoDatasets, DefaultDatasets, ListedDatasets}]

\* config['dataset_query_variable']: missing, empty or a variable name
QueryVariables == {Absent, "", "query"}

Configs ==
    [agent_mode : AgentModes, dataset_configs : DatasetConfigs,
     dataset_query_variable : QueryVariables]

QueryVariableRequired == "Dataset query variable is required when dataset is exist"

\* what a call gives: the error it raised ("" for none) and the config
Returned(error, config) == [error |-> error, config |-> config]

is_dataset_exists(id) == id = "ds1"

\* the checks of one tool of agent_mode.tools, "" when they pass
ToolError(tool) ==
    IF tool.key # "dataset" THEN ""
    ELSE IF tool.id = "absent" THEN "id is required in dataset"
    ELSE IF tool.id = "not-uuid" THEN "id in dataset must be of UUID type"
    ELSE IF ~is_dataset_exists(tool.id)
    THEN "Dataset ID does not exist, please check your permission."
    ELSE ""

\* not dataset_query_variable
NoQueryVariable(config) == config.dataset_query_variable \in {Absent, ""}

extract_dataset_config_for_legacy_compatibility(app_mode, config) ==
    LET given == config.agent_mode
        agent_mode ==
            [given |-> TRUE,
             enabled |-> IF given.enabled = "true" THEN "true" ELSE "false",
             tools |-> [i \in 1..Len(given.tools) |->
                          IF given.tools[i].key = "dataset" /\ given.tools[i].enabled = "absent"
                          THEN [given.tools[i] EXCEPT !.enabled = "false"]
                          ELSE given.tools[i]],
             strategy |-> IF given.strategy = "absent" THEN "router" ELSE given.strategy]
        routed == agent_mode.strategy \in {"router", "react_router"}
        failing == {i \in 1..Len(given.tools) : routed /\ ToolError(given.tools[i]) # ""}
        has_datasets == routed /\ \E i \in 1..Len(given.tools) : given.tools[i].key = "dataset"
        need_manual_query_datasets == has_datasets /\ agent_mode.enabled = "true"
        out == [config EXCEPT !.agent_mode = agent_mode]
    IN  IF failing # {}
        THEN Returned(ToolError(given.tools[CHOOSE i \in failing : \A j \in failing : i <= j]), out)
        ELSE IF need_manual_query_datasets /\ app_mode = "completion" /\ NoQueryVariable(config)
        THEN Returned(QueryVariableRequired, out)
        ELSE Returned("", out)

\* config.get("dataset_configs") and config["dataset_configs"].get("datasets")
DatasetsTruthy(dataset_configs) == dataset_configs.given /\ dataset_configs.datasets.given

validate_and_set_defaults(app_mode, config) ==
    LET extracted == extract_dataset_config_for_legacy_compatibility(app_mode, config)
        c1 == extracted.config
        d1 == IF c1.dataset_configs.given
              THEN c1.dataset_configs
              ELSE [NoDatasetConfigs EXCEPT !.given = TRUE, !.retrieval_model = "single"]
        d2 == IF d1.datasets.given THEN d1 ELSE [d1 EXCEPT !.datasets = DefaultDatasets]
        out == [c1 EXCEPT !.dataset_configs = d2]
    IN  IF extracted.error # "" THEN extracted
        ELSE IF d2.retrieval_model = "absent" THEN Returned("KeyError: 'retrieval_model'", out)
        ELSE IF d2.retrieval_model = "multiple" /\ d2.reranking_model = "absent"
        THEN Returned("KeyError: 'reranking_model'", out)
        ELSE IF d2.retrieval_model = "multiple" /\ d2.reranking_model = "empty"
        THEN Returned("reranking_model has not been set", out)
        ELSE IF DatasetsTruthy(d2) /\ app_mode = "completion" /\ NoQueryVariable(out)
        THEN Returned(QueryVariableRequired, out)
        ELSE Returned("", out)

InitValidator ==
    /\ PipelineIdle
    /\ validate_args \in [given : {TRUE}, app_mode : AppModes, config : Configs]
    /\ validated = <<>>
    /\ token_args = NoArgs /\ rest_tokens = <<>>

Validate ==
    /\ validate_args.given /\ validated = <<>>
    /\ validated' = <<validate_and_set_defaults(validate_args.app_mode, validate_args.config)>>
    /\ UNCHANGED <<pipelineVars, validate_args, token_args, rest_tokens>>

SpecValidator == InitValidator /\ [][Validate]_vars

\* ====================================================== PromptTransform
\* model_properties.get(CONTEXT_SIZE): <<>> when the model declares none
ContextSizes == {<<>>, <<4>>, <<8>>}

\* a parameter rule of the model schema; use_template "" stands for None
Rule(name, use_template) == [name |-> name, use_template |-> use_template]

RuleLists ==
    {<<>>,
     <<Rule("temperature", "temperature")>>,
     <<Rule("max_tokens", "")>>,
     <<Rule("max_tokens", "max_tokens")>>,
     <<Rule("temperature", "temperature"), Rule("max_tokens", "")>>,
     <<Rule("max_tokens_to_sample", "max_tokens")>>,
     <<Rule("max_tokens_to_sample", "max_tokens"), Rule("temperature", "temperature")>>,
     <<Rule("max_tokens", ""), Rule("max_tokens_to_sample", "max_tokens")>>}

\* model_config.parameters: the configured values, by parameter name
ParameterNames == {"max_tokens", "max_tokens_to_sample"}
ParameterSets ==
    UNION {[names -> {0, 3, 6}] : names \in SUBSET ParameterNames}

\* parameters.get(key) taken for its truth value: None counts as 0
GetParameter(parameters, key) == IF key \in DOMAIN parameters THEN parameters[key] ELSE 0

\* a or b
Or(a, b) == IF a # 0 THEN a ELSE b

\* the rule is named max_tokens or uses the max_tokens template
IsMaxTokens(rule) == rule.name = "max_tokens" \/ rule.use_template = "max_tokens"

\* the loop over parameter_rules: every matching rule assigns max_tokens
RECURSIVE MaxTokensOf(_, _, _)
MaxTokensOf(rules, parameters, max_tokens) ==
    IF rules = <<>> THEN max_tokens
    ELSE LET rule == Head(rules)
         IN  MaxTokensOf(Tail(rules), parameters,
                IF IsMaxTokens(rule)
                THEN Or(Or(GetParameter(parameters, rule.name),
                           GetParameter(parameters, rule.use_template)), 0)
                ELSE max_tokens)

\* a result that keeps the difference as it is
Unfloored(n) == n

\* max(rest_tokens, 0)
NonNegative(n) == IF n > 0 THEN n ELSE 0

_calculate_rest_token(args) ==
    IF args.context_size = <<>>
    THEN 2000
    ELSE LET model_context_tokens == args.context_size[1]
             curr_message_tokens == args.prompt_tokens
             max_tokens == MaxTokensOf(args.parameter_rules, args.parameters, 0)
         IN  NonNegative(model_context_tokens - max_tokens - curr_message_tokens)

InitPrompt ==
    /\ PipelineIdle
    /\ validate_args = NoArgs /\ validated = <<>>
    /\ token_args \in [given : {TRUE}, context_size : ContextSizes,
                       prompt_tokens : 0..MaxPromptTokens,
                       parameter_rules : RuleLists, parameters : ParameterSets]
    /\ rest_tokens = <<>>

CalculateRestToken ==
    /\ token_args.given /\ rest_tokens = <<>>
    /\ rest_tokens' = <<_calculate_rest_token(token_args)>>
    /\ UNCHANGED <<pipelineVars, validate_args, validated, token_args>>

SpecPrompt == InitPrompt /\ [][CalculateRestToken]_vars

\* =================================================================== claims
\* every event in queue order: delivered ones, then the ones still queued
QueueOrder == consumed \o queue

\* the events of the task: the queue order up to its first terminal event
TaskEvents ==
    LET terminals == {i \in 1..Len(QueueOrder) : IsTerminal(QueueOrder[i])}
    IN  IF terminals = {} THEN QueueOrder
        ELSE SubSeq(QueueOrder, 1, CHOOSE i \in terminals : \A j \in terminals : i <= j)

ErrorInTask == \E i \in 1..Len(TaskEvents) : TaskEvents[i].kind = "Error"

\* the task ends in Stop or in WorkflowFinished of a succeeded run
TaskEndsInSuccess ==
    /\ TaskEvents # <<>>
    /\ LET last == TaskEvents[Len(TaskEvents)]
       IN  \/ last.kind = "Stop"
           \/ last.kind = "WorkflowFinished" /\ dbRun.status = "succeeded"

LoopLeft == pc # "listening"

\* C1: when the events of a task end in Stop or in a successful
\* WorkflowFinished and hold no Error, the pipeline, once it has stopped,
\* has committed the Message and sent message_was_created exactly once,
\* in streaming and in blocking mode.
C1_FinalizedExactlyOnce ==
    (LoopLeft /\ TaskEndsInSuccess /\ ~ErrorInTask)
        => (message.commits = 1 /\ message.notified = 1)

\* C2: whatever the queue holds and listen() delivers, more than one
\* terminal event included, _save_message runs at most once per task, in
\* streaming and in blocking mode.
C2_FinalizedAtMostOnce == message.commits <= 1

\* C3: when the events of a task hold an Error event, at any position, the
\* Message is never committed, message_was_created is never sent and
\* moderation_completion is never called.
C3_ErrorSkipsFinalization ==
    ErrorInTask => (message.commits = 0 /\ message.notified = 0 /\ mod.completions = 0)

\* an Error in the middle of the task: text was aggregated before it, a Stop
\* is queued behind it, and the loop has been left on it
C3_Witness ==
    /\ LoopLeft
    /\ consumed # <<>> /\ consumed[Len(consumed)].kind = "Error"
    /\ handler
    /\ \E i \in 1..Len(consumed) : consumed[i].kind = "TextChunk"
    /\ \E i \in 1..Len(queue) : queue[i].kind = "Stop"

\* C4: over the same events, rows and moderation rule, the blocking run
\* ends with the final answer (persisted and reported) and the response
\* metadata the streaming run ended with.
C4_ModesAgree ==
    (prior # <<>> /\ prior[1].output # <<>> /\ LoopLeft)
        => /\ pc = "done"
           /\ message.answer = prior[1].answer
           /\ response[1].answer = prior[1].answer
           /\ response[1].has_metadata = prior[1].output[1].has_metadata
           /\ response[1].metadata = prior[1].output[1].metadata

\* the last message_replace frame of the stream
LastReplace ==
    LET at == {i \in 1..Len(frames) : frames[i].event = "message_replace"}
    IN  frames[CHOOSE i \in at : \A j \in at : j <= i]

\* the moderation finalize step has run: moderation_completion was called
ModerationFinalized == mod.completions > 0

\* C5: once the Message is committed, its answer is TaskState.answer as the
\* moderation finalize step left it, and it is the answer of the terminal
\* output: the blocking response, and the last message_replace frame of a
\* stream with moderation.
C5_PersistedAnswer ==
    message.commits > 0 =>
        /\ message.answer = answer
        /\ ModerationFinalized => answer = moderation_completion(answer)
        /\ (~stream /\ response # <<>>) => response[1].answer = message.answer
        /\ (stream /\ ModerationFinalized) => LastReplace.answer = message.answer

\* a stream whose aggregated text was replaced by the finalize step
C5_Witness ==
    /\ stream /\ message.commits = 1 /\ ModerationFinalized
    /\ message.answer = Preset
    /\ \E i \in 1..Len(frames) : frames[i].event = "message" /\ frames[i].answer = <<"b">>

\* the Stop event the direct-output branch publishes
SyntheticStop == Ev("Stop", <<"output-moderation">>)

\* how often an event occurs in a sequence of events
RECURSIVE Count(_, _)
Count(seq, e) ==
    IF seq = <<>> THEN 0
    ELSE (IF Head(seq) = e THEN 1 ELSE 0) + Count(Tail(seq), e)

\* the direct-output branch was taken and the generator lived on
DirectOutputDone == Count(QueueOrder, SyntheticStop) > 0

\* the direct-output branch was taken
DirectOutputTriggered ==
    \/ DirectOutputDone
    \/ /\ pc = "crashed" /\ message.commits = 0
       /\ consumed # <<>> /\ consumed[Len(consumed)].kind = "TextChunk"

\* a step that consumes a TextChunk after direct output neither emits a
\* frame nor appends to the answer
NoLaterChunk ==
    (DirectOutputDone /\ Len(consumed') > Len(consumed) /\ Head(queue).kind = "TextChunk")
        => (frames' = frames /\ answer' \in {answer, get_final_output(mod)})

FinalizedBy(kind) ==
    /\ message.commits > 0
    /\ \E i \in 1..Len(consumed) :
        /\ consumed[i].kind = kind
        /\ \A j \in 1..(i - 1) : ~IsTerminal(consumed[j])

AnnotationConsumed ==
    \E i \in 1..Len(consumed) :
        consumed[i].kind = "AnnotationReply" /\ HasAnnotation(consumed[i].arg[1])

C7_DirectOutputInjection ==
    (stream /\ DirectOutputTriggered)
        => /\ Count(QueueOrder, Ev("MessageReplace", get_final_output(mod))) = 1
           /\ Count(QueueOrder, SyntheticStop) = 1
           /\ LoopLeft => \E i \in 1..Len(frames) :
                            /\ frames[i].event = "message_replace"
                            /\ frames[i].answer = get_final_output(mod)

\* the metadata of the terminal output
OutputMetadata == TerminalOutput[1].metadata

\* C8: the response metadata of a privileged caller carries the collected
\* retriever_resources in full, the collected annotation_reply, and usage;
\* for every other channel retriever_resources holds exactly segment_id,
\* position, document_name, score and content per resource, and neither
\* usage nor annotation_reply is present.
C8_MetadataGate ==
    (TerminalOutput # <<>> /\ TerminalOutput[1].has_metadata) =>
        IF invoke_from \in {"debugger", "service-api"}
        THEN /\ "usage" \in DOMAIN OutputMetadata
             /\ OutputMetadata["usage"] = metadata["usage"]
             /\ "retriever_resources" \in DOMAIN metadata =>
                    /\ "retriever_resources" \in DOMAIN OutputMetadata
                    /\ OutputMetadata["retriever_resources"] = metadata["retriever_resources"]
             /\ "annotation_reply" \in DOMAIN metadata =>
                    /\ "annotation_reply" \in DOMAIN OutputMetadata
                    /\ OutputMetadata["annotation_reply"] = metadata["annotation_reply"]
        ELSE /\ "usage" \notin DOMAIN OutputMetadata
             /\ "annotation_reply" \notin DOMAIN OutputMetadata
             /\ "retriever_resources" \in DOMAIN metadata =>
                    /\ "retriever_resources" \in DOMAIN OutputMetadata
                    /\ Len(OutputMetadata["retriever_resources"]) = Len(metadata["retriever_resources"])
                    /\ \A i \in 1..Len(metadata["retriever_resources"]) :
                        /\ DOMAIN OutputMetadata["retriever_resources"][i]
                              = {"segment_id", "position", "document_name", "score", "content"}
                        /\ \A f \in DOMAIN OutputMetadata["retriever_resources"][i] :
                              OutputMetadata["retriever_resources"][i][f]
                                  = metadata["retriever_resources"][i][f]

\* an unprivileged caller whose task collected retriever resources and usage
C8_Witness ==
    /\ invoke_from = "web-app"
    /\ TerminalOutput # <<>> /\ TerminalOutput[1].has_metadata
    /\ {"retriever_resources", "usage"} \subseteq DOMAIN metadata
    /\ DOMAIN OutputMetadata = {"retriever_resources"}
    /\ DOMAIN metadata["retriever_resources"][1] # DOMAIN OutputMetadata["retriever_resources"][1]

\* the Error event a streaming run ended on, and its frame
ErrorFrameEmitted ==
    /\ stream /\ pc = "done"
    /\ consumed # <<>> /\ consumed[Len(consumed)].kind = "Error"
    /\ frames # <<>> /\ frames[Len(frames)].event = "error"

ErrorClass == consumed[Len(consumed)].arg[1]
ErrorFrame == frames[Len(frames)]

\* C9: in streaming mode the error frame of a ProviderTokenNotInitError
\* has code provider_not_initialize, of a QuotaExceededError
\* provider_quota_exceeded, of a ModelCurrentlyNotSupportError
\* model_currently_not_support, of an InvokeError completion_request_error,
\* each with status 400.
C9_ProviderErrorCodes ==
    ErrorFrameEmitted =>
        /\ ErrorClass = "ProviderTokenNotInitError"
              => (ErrorFrame.code = "provider_not_initialize" /\ ErrorFrame.status = 400)
        /\ ErrorClass = "QuotaExceededError"
              => (ErrorFrame.code = "provider_quota_exceeded" /\ ErrorFrame.status = 400)
        /\ ErrorClass = "ModelCurrentlyNotSupportError"
              => (ErrorFrame.code = "model_currently_not_support" /\ ErrorFrame.status = 400)
        /\ "InvokeError" \in Bases(ErrorClass)
              => (ErrorFrame.code = "completion_request_error" /\ ErrorFrame.status = 400)

\* C10 as stated: the error frame of an InvokeAuthorizationError carries the
\* fixed incorrect-credentials message and the code invalid_param.
C10_AuthorizationAsStated ==
    (ErrorFrameEmitted /\ ErrorClass = "InvokeAuthorizationError")
        => /\ ErrorFrame.message = "Incorrect API key provided"
           /\ ErrorFrame.code = "invalid_param"

\* C10 as the code has it: the error frame of an InvokeAuthorizationError
\* carries the fixed incorrect-credentials message, never the message of
\* the cause, with code completion_request_error and status 400 (the
\* status of invalid_param); in blocking mode the raised error is an
\* InvokeAuthorizationError with the fixed message.
C10_Authorization ==
    /\ (ErrorFrameEmitted /\ ErrorClass = "InvokeAuthorizationError")
        => /\ ErrorFrame.message = "Incorrect API key provided"
           /\ ErrorFrame.message # CauseOf(ErrorClass).description
           /\ ErrorFrame.code = "completion_request_error"
           /\ ErrorFrame.status = 400
    /\ (~stream /\ pc = "raised" /\ consumed[Len(consumed)].kind = "Error"
            /\ ErrorClass = "InvokeAuthorizationError")
        => /\ raised[1].class = "InvokeAuthorizationError"
           /\ raised[1].description = "Incorrect API key provided"

\* a stream ended by the frame of an authorization failure
C10_Witness ==
    /\ ErrorFrameEmitted /\ ErrorClass = "InvokeAuthorizationError"
    /\ ErrorFrame.message = "Incorrect API key provided"
    /\ Len(frames) > 1

\* causes outside the taxonomy of the error mapping
UnknownCauses == {"RuntimeError", "KeyError"}

\* C11: the streaming error frame of every cause outside the known taxonomy
\* is the same frame: event error, code internal_server_error, status 500,
\* the fixed message, and nothing of the cause.
C11_UnknownCauseFrame ==
    (ErrorFrameEmitted /\ ErrorClass \in UnknownCauses)
        => /\ ErrorFrame = [Frame("error") EXCEPT
                              !.code = "internal_server_error", !.status = 500,
                              !.message = "Internal Server Error, please contact support."]
           /\ \A cls \in UnknownCauses :
                /\ ErrorFrame.message # CauseOf(cls).str
                /\ _error_to_stream_response_data(_handle_error(CauseOf(cls))) = ErrorFrame

\* a stream ended by the frame of a KeyError, after other frames
C11_Witness ==
    /\ ErrorFrameEmitted /\ ErrorClass = "KeyError"
    /\ ErrorFrame.code = "internal_server_error"
    /\ Len(frames) > 1

\* the last event consumed is a WorkflowFinished whose run did not succeed
FailedRunFinished ==
    /\ consumed # <<>>
    /\ consumed[Len(consumed)].kind = "WorkflowFinished"
    /\ dbRun.status # "succeeded"

\* how many frames of a kind the stream has emitted
FrameCount(event) == Cardinality({i \in 1..Len(frames) : frames[i].event = event})

\* C12: a WorkflowFinished whose run did not succeed ends the task as an
\* error: the stream emits exactly one error frame whose message carries the
\* run's error, and no workflow_finished, message_replace or message_end
\* frame; the blocking call raises and returns no response; in both modes
\* nothing is persisted and moderation_completion is not called.
C12_FailedRunIsError ==
    FailedRunFinished =>
        /\ message.commits = 0 /\ message.notified = 0 /\ mod.completions = 0
        /\ stream =>
            /\ pc = "done"
            /\ FrameCount("error") = 1
            /\ frames[Len(frames)].event = "error"
            /\ frames[Len(frames)].message = "Run failed: " \o dbRun.error
            /\ FrameCount("workflow_finished") = 0
            /\ FrameCount("message_end") = 0
            /\ FrameCount("message_replace") = Count(consumed, Ev("MessageReplace", <<"m">>))
        /\ ~stream =>
            /\ pc = "raised"
            /\ response = <<>>
            /\ raised[1].class = "ValueError"
            /\ raised[1].str = "Run failed: " \o dbRun.error

\* a stream with a moderation handler and earlier frames, ended by a failed run
C12_Witness ==
    /\ FailedRunFinished /\ stream /\ handler
    /\ Len(frames) > 1
    /\ frames[Len(frames)].code = "invalid_param"

\* the frames the branch of an event kind can yield
FramesOf(kind) ==
    CASE kind = "Error" -> {"error"}
      [] kind = "WorkflowStarted" -> {"workflow_started"}
      [] kind = "NodeStarted" -> {"node_started"}
      [] kind = "NodeFinished" -> {"node_finished"}
      [] kind = "WorkflowFinished" -> {"workflow_finished", "message_replace", "message_end", "error"}
      [] kind = "Stop" -> {"message_replace", "message_end"}
      [] kind = "MessageFile" -> {"message_file"}
      [] kind = "TextChunk" -> {"message"}
      [] kind = "MessageReplace" -> {"message_replace"}
      [] kind = "Ping" -> {"ping"}
      [] OTHER -> {}

\* a step of the stream takes the event at the head of the queue, and only
\* such a step emits frames: the frames of that event, after all earlier ones
InArrivalOrder ==
    stream =>
        /\ consumed' # consumed =>
            /\ queue # <<>>
            /\ Len(consumed') = Len(consumed) + 1
            /\ SubSeq(consumed', 1, Len(consumed)) = consumed
            /\ consumed'[Len(consumed')].kind = Head(queue).kind
            /\ Len(queue') >= Len(queue) - 1
            /\ SubSeq(queue', 1, Len(queue) - 1) = Tail(queue)
        /\ frames' # frames =>
            /\ consumed' # consumed
            /\ Len(frames') > Len(frames)
            /\ SubSeq(frames', 1, Len(frames)) = frames
            /\ \A i \in (Len(frames) + 1)..Len(frames') :
                    frames'[i].event \in FramesOf(Head(queue).kind)

\* C13: in streaming mode events are consumed in arrival order, and every
\* frame is emitted in the step that consumes its event, after the frames of
\* all events consumed before: frames keep the order of their events and no
\* frame precedes the consumption of its event.
C13_ArrivalOrder == [][InArrivalOrder]_vars

\* the names of the frames emitted so far
FrameEvents == [i \in 1..Len(frames) |-> frames[i].event]

\* three events that arrived in this order, and their frames in that order
C13_Witness ==
    /\ stream
    /\ Len(consumed) = 3
    /\ consumed[1].kind = "WorkflowStarted"
    /\ consumed[2] = Ev("TextChunk", <<"a">>)
    /\ consumed[3].kind = "Stop"
    /\ FrameEvents = <<"workflow_started", "message", "message_end">>

\* the example task, consumed by a stream for a privileged caller without
\* moderation, with the rows of a succeeded run and a succeeded LLM node
ExampleRun ==
    /\ published = ExampleScript
    /\ stream /\ Privileged(invoke_from)
    /\ ~handler /\ mod.completions = 0
    /\ dbRun = [status |-> "succeeded", outputs |-> [k \in {"text"} |-> <<"a", "b">>],
                error |-> "None"]
    /\ dbNode = [status |-> "succeeded", node_type |-> "llm",
                 outputs |-> [k \in {"usage"} |-> Usage1]]

ExampleFrames ==
    <<"workflow_started", "node_started", "message", "message", "node_finished",
      "workflow_finished", "message_end">>

\* C14: the stream of WorkflowStarted, NodeStarted, TextChunk, TextChunk,
\* NodeFinished (succeeded LLM node with usage), WorkflowFinished (succeeded)
\* for a privileged caller without moderation emits workflow_started,
\* node_started, message, message, node_finished, workflow_finished,
\* message_end in this order and nothing else, and message_end carries
\* metadata.usage.
C14_ExampleFrames ==
    ExampleRun =>
        /\ pc # "crashed"
        /\ Len(frames) <= Len(ExampleFrames)
        /\ FrameEvents = SubSeq(ExampleFrames, 1, Len(frames))
        /\ queue = <<>> =>
            /\ FrameEvents = ExampleFrames
            /\ frames[3].answer = <<"a">> /\ frames[4].answer = <<"b">>
            /\ frames[7].has_metadata
            /\ "usage" \in DOMAIN frames[7].metadata
            /\ frames[7].metadata["usage"] = Usage1

\* the example task consumed to its end
C14_Witness ==
    /\ ExampleRun
    /\ queue = <<>> /\ pc = "done"
    /\ Len(frames) = 7
    /\ frames[7].event = "message_end"
    /\ message.answer = <<"a", "b">>

\* C15: in streaming mode an Error event gives exactly one error frame, the
\* last frame of the stream, and no event is consumed after it; a successful
\* task leaves the loop right after message_end, so that message_end is the
\* last frame of its stream.
C15_SingleExit ==
    stream =>
        /\ \A i \in 1..Len(consumed) :
            consumed[i].kind = "Error" =>
                /\ i = Len(consumed)
                /\ FrameCount("error") = 1
                /\ frames[Len(frames)].event = "error"
        /\ \A i \in 1..Len(frames) :
            frames[i].event = "message_end" => i = Len(frames)

InLog(x) == \E i \in 1..Len(log) : log[i] = x

\* every x of the log comes before every y of the log
Precedes(x, y) ==
    \A i, j \in 1..Len(log) : (log[i] = x /\ log[j] = y) => i < j

LogCount(x) == Cardinality({i \in 1..Len(log) : log[i] = x})

\* a moderation handler was configured for the task
ModerationConfigured == handler \/ mod.completions > 0

\* C16: on a terminal event the moderation scan is stopped, then
\* moderation_completion overwrites the answer (with a handler), then the
\* stream emits message_replace, then the Message is committed, then
\* message_was_created is sent, and only then message_end is emitted or the
\* blocking response returned; in the stream workflow_finished comes before
\* all of these.
C16_FinalizationOrder ==
    /\ LogCount("commit") = message.commits
    /\ LogCount("message_was_created") = message.notified
    /\ LogCount("moderation_completion") = mod.completions
    /\ LogCount("yield:message_end") = FrameCount("message_end")
    /\ LogCount("yield:workflow_finished") = FrameCount("workflow_finished")
    /\ message.commits > 0 =>
        /\ InLog("message_was_created")
        /\ Precedes("commit", "message_was_created")
        /\ ModerationConfigured =>
            /\ InLog("stop_thread") /\ InLog("moderation_completion")
            /\ Precedes("stop_thread", "moderation_completion")
            /\ Precedes("moderation_completion", "commit")
            /\ answer = moderation_completion(answer)
            /\ stream =>
                /\ InLog("yield:message_replace")
                /\ Precedes("moderation_completion", "yield:message_replace")
                /\ Precedes("yield:message_replace", "commit")
        /\ Precedes("message_was_created", "yield:message_end")
        /\ Precedes("message_was_created", "return")
        /\ pc = "done" => (InLog("yield:message_end") \/ InLog("return"))
        /\ \A x \in {"stop_thread", "moderation_completion", "yield:message_replace",
                     "commit", "message_was_created", "yield:message_end"} :
                Precedes("yield:workflow_finished", x)

\* a succeeded run finalized by a stream with a moderation handler
C16_Witness ==
    /\ stream /\ pc = "done" /\ message.commits = 1
    /\ Len(log) >= 7
    /\ SubSeq(log, Len(log) - 6, Len(log)) =
          <<"yield:workflow_finished", "stop_thread", "moderation_completion",
            "yield:message_replace", "commit", "message_was_created", "yield:message_end">>

\* C17: with a moderation handler, moderation_completion is called exactly
\* once for a finalized task, only by the finalization that commits the
\* Message, after stop_thread, and no append_new_token or
\* should_direct_output call follows it.
C17_CompletionOnce ==
    /\ LogCount("moderation_completion") <= 1
    /\ (ModerationConfigured /\ message.commits > 0) => LogCount("moderation_completion") = 1
    /\ InLog("moderation_completion") =>
        /\ message.commits > 0
        /\ ~mod.running
        /\ InLog("stop_thread")
        /\ Precedes("stop_thread", "moderation_completion")
        /\ Precedes("should_direct_output", "moderation_completion")
        /\ Precedes("append_new_token", "moderation_completion")

\* a stream whose handler took a chunk, was finalized, and whose loop then
\* consumed one more chunk
C17_Witness ==
    /\ stream /\ mod.completions = 1
    /\ InLog("append_new_token")
    /\ Len(consumed) = 3
    /\ consumed[2].kind = "Stop"
    /\ consumed[3] = Ev("TextChunk", <<"a">>)
    /\ frames[Len(frames)].event = "message"

\* C18: whenever the pipeline has stopped consuming and a moderation handler
\* was configured, the scan of the handler has been stopped, whether the
\* task was finalized or ended by an Error event or a failed run.
C18_ModerationStopped ==
    (LoopLeft /\ ModerationConfigured) => ~mod.running

\* a terminal event that finalizes has been delivered
SuccessfulTerminalConsumed ==
    \E i \in 1..Len(consumed) :
        \/ consumed[i].kind = "Stop"
        \/ consumed[i].kind = "WorkflowFinished" /\ dbRun.status = "succeeded"

\* C19: in blocking mode nothing is output before the terminal event, and
\* the terminal event produces exactly one response object with the
\* aggregated answer, whose metadata has content exactly when
\* TaskState.metadata is non-empty and is the empty object otherwise.
C19_BlockingResponse ==
    ~stream =>
        /\ frames = <<>>
        /\ ~SuccessfulTerminalConsumed => response = <<>>
        /\ (LoopLeft /\ SuccessfulTerminalConsumed /\ ~ErrorInTask) =>
            /\ Len(response) = 1
            /\ response[1].answer = answer
            /\ response[1].has_metadata <=> (DOMAIN metadata # {})
            /\ ~response[1].has_metadata => response[1].metadata = Frame("message").metadata

\* C20: right after a MessageReplace event is handled, TaskState.answer is
\* the text the event carries, in both modes, and in streaming mode the
\* last frame is message_replace with that text.
C20_ReplaceSetsAnswer ==
    (consumed # <<>> /\ consumed[Len(consumed)].kind = "MessageReplace") =>
        /\ answer = consumed[Len(consumed)].arg
        /\ stream =>
            /\ frames # <<>>
            /\ frames[Len(frames)].event = "message_replace"
            /\ frames[Len(frames)].answer = consumed[Len(consumed)].arg

\* the kinds the dispatcher of the running mode has a branch for
HandledKinds == IF stream THEN StreamKinds ELSE BlockingKinds

\* the step delivers an event the dispatcher has no branch for
UnhandledDelivered ==
    /\ Len(consumed') = Len(consumed) + 1
    /\ consumed'[Len(consumed')].kind \notin HandledKinds

\* C21: an event of a kind the dispatcher does not handle is skipped: the
\* step that delivers it leaves TaskState, the frames, the Message and the
\* moderation handler as they were, raises nothing, and the loop keeps
\* listening, in both modes.
C21_UnhandledSkipped ==
    [][UnhandledDelivered =>
          /\ answer' = answer /\ metadata' = metadata /\ workflow_run_id' = workflow_run_id
          /\ frames' = frames /\ response' = response /\ raised' = raised
          /\ message' = message /\ mod' = mod /\ log' = log
          /\ pc' = "listening"]_vars

C21_Witness ==
    /\ stream
    /\ Len(consumed) = 3
    /\ consumed[1].kind = "TextChunk" /\ consumed[2].kind = "AgentThought"
    /\ consumed[3].kind = "Ping"
    /\ answer = <<"a">>
    /\ Len(frames) = 2 /\ frames[2].event = "ping"

IsPrefix(short, long) ==
    /\ Len(short) <= Len(long)
    /\ \A i \in 1..Len(short) : short[i] = long[i]

\* the kind of the event the step delivers, "" when it delivers none
DeliveredKind ==
    IF Len(consumed') = Len(consumed) + 1 THEN consumed'[Len(consumed')].kind ELSE ""

\* the step replaces the answer by the preset response of the handler
ModerationOverride == handler /\ answer' = Preset

\* C22: from one state of a task to the next, the new answer has the old
\* answer as a prefix, unless the step handles a MessageReplace or an
\* AnnotationReply event or is a moderation override; a successful
\* WorkflowFinished does not replace accumulated text.
C22_AppendOnly ==
    [][\/ IsPrefix(answer, answer')
       \/ DeliveredKind \in {"MessageReplace", "AnnotationReply"}
       \/ ModerationOverride]_vars

\* the node executions whose NodeFinished was handled and that are
\* succeeded LLM nodes (the rows of a queued task do not change)
FinishedLLM ==
    {i \in 1..Len(consumed) :
        /\ consumed[i].kind = "NodeFinished"
        /\ _get_workflow_node_execution(consumed[i].arg[1]).status = "succeeded"
        /\ _get_workflow_node_execution(consumed[i].arg[1]).node_type = "llm"}

\* prompt tokens a node execution reports, 0 without usage
NodeTokens(node) ==
    IF "usage" \in DOMAIN node.outputs THEN node.outputs["usage"].prompt_tokens ELSE 0

RECURSIVE SumTokens(_)
SumTokens(at) ==
    IF at = {} THEN 0
    ELSE LET i == CHOOSE j \in at : TRUE
         IN  NodeTokens(_get_workflow_node_execution(consumed[i].arg[1])) + SumTokens(at \ {i})

\* prompt tokens of metadata.usage, 0 without usage
CollectedTokens ==
    IF "usage" \in DOMAIN metadata /\ DOMAIN metadata["usage"] # {}
    THEN metadata["usage"].prompt_tokens ELSE 0

\* C23: metadata.usage is set only by NodeFinished events of succeeded LLM
\* nodes, and it holds the usage of all of them: the prompt tokens of every
\* succeeded LLM node that finished so far add up in metadata.usage.
C23_UsageMerged ==
    /\ FinishedLLM = {} => "usage" \notin DOMAIN metadata
    /\ FinishedLLM # {} =>
        /\ "usage" \in DOMAIN metadata
        /\ CollectedTokens = SumTokens(FinishedLLM)

MessageEndEmitted == \E i \in 1..Len(frames) : frames[i].event = "message_end"

\* C25: in streaming mode, once the direct-output branch was taken for a
\* TextChunk, the loop is not left before the task is finalized: when the
\* consumer has stopped, the Stop of the pipeline has been delivered, the
\* message is persisted and message_end is emitted.
C25_ShortCircuitFinalizes ==
    (stream /\ DirectOutputTriggered /\ LoopLeft)
        => /\ Count(consumed, SyntheticStop) > 0
           /\ message.commits > 0
           /\ MessageEndEmitted

\* C26: when a task is finalized with a non-empty TaskState.metadata, the
\* response metadata is computed for every channel and every set of
\* collected keys: once the loop is left, the persisted message has its
\* terminal response (message_end, or the response object in blocking mode).
C26_MetadataComputed ==
    (LoopLeft /\ message.commits > 0 /\ DOMAIN metadata # {})
        => /\ TerminalOutput # <<>>
           /\ TerminalOutput[1].has_metadata

\* the MessageFile events handled so far whose record exists
FilesFound ==
    SelectSeq(consumed, LAMBDA e : e.kind = "MessageFile" /\ HasMessageFile(e.arg[1]))

\* the message_file frames of the stream
FileFrames == SelectSeq(frames, LAMBDA f : f.event = "message_file")

\* the extension the frame of each stored file is signed with
ExpectedExtension == [f1 |-> <<".", "p", "n", "g">>, f2 |-> DotBin, f3 |-> DotBin]

\* C27: in streaming mode a MessageFile event whose record is absent emits
\* no frame and the loop goes on with the next event; each event whose
\* record exists gives one message_file frame with a signed url, signed
\* with '.bin' when the stored url has no dot or its extension is longer
\* than 10 characters.
C27_MessageFile ==
    stream =>
        /\ (/\ consumed # <<>>
            /\ consumed[Len(consumed)].kind = "MessageFile"
            /\ ~HasMessageFile(consumed[Len(consumed)].arg[1]))
              => pc = "listening"
        /\ Len(FileFrames) = Len(FilesFound)
        /\ \A i \in 1..Len(FilesFound) :
              FileFrames[i].url
                  = sign_file(FilesFound[i].arg[1], ExpectedExtension[FilesFound[i].arg[1]])

\* the config given to the validator holds a dataset: one listed in
\* dataset_configs or a dataset tool of agent_mode
ContainsDatasets(config) ==
    \/ config.dataset_configs.given /\ config.dataset_configs.datasets.datasets # <<>>
    \/ \E i \in 1..Len(config.agent_mode.tools) : config.agent_mode.tools[i].key = "dataset"

\* C28: in COMPLETION mode validate_and_set_defaults raises 'Dataset query
\* variable is required when dataset is exist' only for a config that holds
\* datasets; a config with no dataset_configs, no dataset tool in agent_mode
\* and no dataset_query_variable is accepted and returned with the defaults
\* filled in.
C28_QueryVariableRequired ==
    validated # <<>> =>
        LET config == validate_args.config
        IN  /\ validated[1].error = QueryVariableRequired => ContainsDatasets(config)
            /\ (/\ validate_args.app_mode = "completion"
                /\ ~config.dataset_configs.given
                /\ ~ContainsDatasets(config)
                /\ config.dataset_query_variable = Absent)
                  => /\ validated[1].error = ""
                     /\ validated[1].config.dataset_configs.given
                     /\ validated[1].config.dataset_configs.datasets = DefaultDatasets

\* the configured value of the max_tokens parameter of the schema: the value
\* under the name of the (last) rule named or templated max_tokens, else
\* the value under its template name, 0 when there is no such rule or value
ConfiguredMaxTokens ==
    LET rules == token_args.parameter_rules
        at == {i \in 1..Len(rules) : IsMaxTokens(rules[i])}
    IN  IF at = {} THEN 0
        ELSE LET rule == rules[CHOOSE i \in at : \A j \in at : j <= i]
             IN  IF GetParameter(token_args.parameters, rule.name) # 0
                 THEN token_args.parameters[rule.name]
                 ELSE GetParameter(token_args.parameters, rule.use_template)

\* C29: _calculate_rest_token never returns a negative number: it returns
\* 2000 when the model declares no context size, and otherwise the larger
\* of 0 and context_size - max_tokens - current prompt tokens, max_tokens
\* being the configured value of the max_tokens parameter or 0.
C29_RestToken ==
    rest_tokens # <<>> =>
        /\ rest_tokens[1] >= 0
        /\ token_args.context_size = <<>> => rest_tokens[1] = 2000
        /\ token_args.context_size # <<>> =>
            LET left == token_args.context_size[1] - ConfiguredMaxTokens - token_args.prompt_tokens
            IN  /\ left >= 0 => rest_tokens[1] = left
                /\ left < 0 => rest_tokens[1] = 0

\* a templated max_tokens rule with a configured value, and a prompt that
\* leaves no room: the result is 0
C29_Witness ==
    /\ rest_tokens = <<0>>
    /\ token_args.context_size = <<8>>
    /\ token_args.parameter_rules = <<Rule("max_tokens_to_sample", "max_tokens")>>
    /\ ConfiguredMaxTokens = 3
    /\ token_args.prompt_tokens > 5

====
